---- MODULE Spec2Model ----
(***************************************************************************)
(* Model of chromedriver_checker.py: the background WorkerThread (version  *)
(* check, download+extract, copy with backup) and the button/handler state *)
(* machine of ChromeDriverCheckerGUI that drives it.                       *)
(*                                                                         *)
(* Strings that the code inspects character by character (version         *)
(* numbers) are sequences of one-character strings.  Python's None and the *)
(* empty string / empty dict are both falsy and the code only ever tests   *)
(* truthiness of them, so an absent local version is the empty sequence    *)
(* and an absent chrome_info is the empty catalog.                         *)
(***************************************************************************)
EXTENDS Integers, Sequences, FiniteSets, TLC

\* ------------------------------------------------------------------ bounds
\* longest version string drawn as an input of the comparison
MaxVerLen == 3
\* number of copy invocations whose outcome is recorded in copy_log
MaxCopyLog == 2
\* rows in a drawn download table
MaxRows == 2
\* installs recorded in the settings
MaxSaves == 2

\* ------------------------------------------------- version strings (l.84-101)
Digits == {"0", "1", "9"}
VerChars == Digits \cup {".", "x"}

DigitVal(c) == CASE c = "0" -> 0 [] c = "1" -> 1 [] c = "9" -> 9

StrsUpTo(n) == UNION {[1..k -> VerChars] : k \in 0..n}

\* str.split("."): the components between the dots, empty ones included
RECURSIVE SplitDot(_)
SplitDot(s) ==
    IF s = <<>> THEN << <<>> >>
    ELSE LET rest == SplitDot(Tail(s))
         IN IF Head(s) = "."
            THEN << <<>> >> \o rest
            ELSE << <<Head(s)>> \o Head(rest) >> \o Tail(rest)

\* [0-9]+ : what the release segment of packaging's VERSION_PATTERN accepts
IsNumber(c) == c # <<>> /\ \A i \in 1..Len(c) : c[i] \in Digits

\* int(component)
RECURSIVE ToInt(_)
ToInt(c) ==
    IF c = <<>> THEN 0
    ELSE 10 * ToInt(SubSeq(c, 1, Len(c) - 1)) + DigitVal(c[Len(c)])

\* packaging.version.parse: over VerChars a string is a version exactly when
\* it is [0-9]+(\.[0-9]+)* ; anything else raises InvalidVersion
\* (valid = FALSE).  release is the tuple of int components.
version_parse(s) ==
    LET parts == SplitDot(s)
    IN IF \A i \in 1..Len(parts) : IsNumber(parts[i])
       THEN [valid |-> TRUE, release |-> [i \in 1..Len(parts) |-> ToInt(parts[i])]]
       ELSE [valid |-> FALSE, release |-> <<>>]

\* cmpkey without the dropping of trailing zeros
cmpkey_nostrip(r) == r

\* Version._key: the release with its trailing zeros dropped
RECURSIVE cmpkey(_)
cmpkey(r) ==
    IF r = <<>> THEN <<>>
    ELSE IF r[Len(r)] = 0 THEN cmpkey(SubSeq(r, 1, Len(r) - 1))
    ELSE r

\* TupleGT deciding on the first component with >= in place of >
TupleGT_ge(a, b) ==
    IF a = <<>> THEN FALSE
    ELSE IF b = <<>> THEN TRUE
    ELSE Head(a) >= Head(b)

\* Python's ordering of tuples of ints: a > b
RECURSIVE TupleGT(_, _)
TupleGT(a, b) ==
    IF a = <<>> THEN FALSE
    ELSE IF b = <<>> THEN TRUE
    ELSE IF Head(a) > Head(b) THEN TRUE
    ELSE IF Head(a) < Head(b) THEN FALSE
    ELSE TupleGT(Tail(a), Tail(b))

\* local_v == stable_v
VersionEQ(lv, sv) == cmpkey(lv.release) = cmpkey(sv.release)

\* local_v > stable_v
VersionGT(lv, sv) == TupleGT(cmpkey(lv.release), cmpkey(sv.release))

\* compare_versions whose except branch still asks for an update
compare_versions_update_on_error(local_version, stable_version) ==
    LET local_v == version_parse(local_version)
        stable_v == version_parse(stable_version)
    IN IF ~local_v.valid \/ ~stable_v.valid
       THEN [status |-> "parse_error", needs_update |-> TRUE]
       ELSE IF VersionEQ(local_v, stable_v)
       THEN [status |-> "latest", needs_update |-> FALSE]
       ELSE IF VersionGT(local_v, stable_v)
       THEN [status |-> "newer", needs_update |-> FALSE]
       ELSE [status |-> "outdated", needs_update |-> TRUE]

\* The try/except block of WorkerThread.check_version for a present local
\* version: the status and needs_update put into the result.  The bare
\* except turns InvalidVersion from either parse into 'parse_error'.
compare_versions(local_version, stable_version) ==
    LET local_v == version_parse(local_version)
        stable_v == version_parse(stable_version)
    IN IF ~local_v.valid \/ ~stable_v.valid
       THEN [status |-> "parse_error", needs_update |-> FALSE]
       ELSE IF VersionEQ(local_v, stable_v)
       THEN [status |-> "latest", needs_update |-> FALSE]
       ELSE IF VersionGT(local_v, stable_v)
       THEN [status |-> "newer", needs_update |-> FALSE]
       ELSE [status |-> "outdated", needs_update |-> TRUE]

\* ------------------------------------------- catalog page and parser (l.207-247)
\* A fetched page: whether the GET succeeded and, per channel, its section.
\* A section's lead paragraph is "none" (no <p>), "nocode" (a <p> without
\* <code>) or "code"; version is the text of that code element.  A table row
\* carries its status-ok class and the code text of each of its cells ("" when
\* the cell has no code element or an empty one).
channels == <<"stable", "beta", "dev", "canary">>
ChannelSet == {channels[i] : i \in 1..Len(channels)}

EmptyDict == [k \in {} |-> k]

NoSection == [present |-> FALSE, p |-> "none", version |-> <<>>, rows |-> <<>>]
Section(p, v, rows) == [present |-> TRUE, p |-> p, version |-> v, rows |-> rows]
Row(ok, cells) == [ok |-> ok, cells |-> cells]

\* add_row that starts a fresh platform mapping for the kind on every row
add_row_fresh_inner(urls, row) ==
    IF row.ok /\ Len(row.cells) >= 4
       /\ row.cells[1] # "" /\ row.cells[2] # "" /\ row.cells[3] # ""
    THEN [b \in DOMAIN urls \cup {row.cells[1]} |->
             IF b = row.cells[1]
             THEN [q \in {row.cells[2]} |-> row.cells[3]]
             ELSE urls[b]]
    ELSE urls

\* l.234-242: one row of the download table folded into download_urls
add_row(urls, row) ==
    IF row.ok /\ Len(row.cells) >= 4
       /\ row.cells[1] # "" /\ row.cells[2] # "" /\ row.cells[3] # ""
    THEN LET binary == row.cells[1]
             platform == row.cells[2]
             download_url == row.cells[3]
             inner == IF binary \in DOMAIN urls THEN urls[binary] ELSE EmptyDict
             inner2 == [q \in DOMAIN inner \cup {platform} |->
                           IF q = platform THEN download_url ELSE inner[q]]
         IN [b \in DOMAIN urls \cup {binary} |->
                IF b = binary THEN inner2 ELSE urls[b]]
    ELSE urls

\* l.231-242: the loop over the rows
RECURSIVE add_rows(_, _)
add_rows(urls, rows) ==
    IF rows = <<>> THEN urls
    ELSE add_rows(add_row(urls, Head(rows)), Tail(rows))

\* l.207-247.  A failed GET, or a section without <p> (find('p') is None and
\* .find raises AttributeError), lands in the except and returns {}.
get_chrome_for_testing_info(page) ==
    IF ~page.fetched THEN EmptyDict
    ELSE IF \E ch \in ChannelSet :
               page.sections[ch].present /\ page.sections[ch].p = "none"
    THEN EmptyDict
    ELSE [ch \in {c \in ChannelSet : page.sections[c].present
                                     /\ page.sections[c].p = "code"} |->
             [version |-> page.sections[ch].version,
              download_urls |-> add_rows(EmptyDict, page.sections[ch].rows)]]

\* ------------------------------------------------ inputs of the version check
ChromeRow == Row(TRUE, <<"chrome", "win64", "url_chrome", "ok">>)
DriverRow == Row(TRUE, <<"chromedriver", "win64", "url_driver", "ok">>)
MacRow == Row(TRUE, <<"chromedriver", "mac-x64", "url_mac", "ok">>)

StableSections ==
    { NoSection,
      Section("none", <<>>, <<>>),
      Section("nocode", <<>>, <<>>),
      Section("code", <<"1", "0">>, <<ChromeRow, DriverRow>>),
      Section("code", <<"1", "0">>, <<ChromeRow, MacRow>>),
      Section("code", <<"x">>, <<DriverRow>>) }

BetaSection == Section("code", <<"1", "9">>, <<>>)

Page(fetched, stable, beta) ==
    [fetched |-> fetched,
     sections |-> [ch \in ChannelSet |->
                      IF ch = "stable" THEN stable
                      ELSE IF ch = "beta" THEN beta ELSE NoSection]]

\* the GET fails, or the page holds a stable section of each shape; the beta
\* section is published when the stable one yields no channel
Pages ==
    { Page(FALSE, NoSection, NoSection) }
    \cup { Page(TRUE, s, IF s.present /\ s.p = "code" THEN NoSection ELSE BetaSection) :
              s \in StableSections }

\* what `chromedriver --version` may report; <<>> is "no local version"
LocalProbes == { <<>>, <<"9">>, <<"1", "0">>, <<"1", "9">>, <<"x">> }

\* check_version that delivers a result even without a stable channel
check_version_always_result(local_version, page) ==
    LET info == get_chrome_for_testing_info(page)
        has_stable == info # EmptyDict /\ "stable" \in DOMAIN info
        stable_version == IF has_stable THEN info["stable"].version ELSE <<>>
        cmp == IF ~has_stable
               THEN [status |-> "unknown", needs_update |-> FALSE]
               ELSE IF local_version # <<>>
               THEN compare_versions(local_version, stable_version)
               ELSE [status |-> "not_found", needs_update |-> TRUE]
    IN [kind |-> "result", task |-> "check_version",
        local_version |-> local_version,
        stable_version |-> stable_version,
        chrome_info |-> info,
        needs_update |-> cmp.needs_update,
        status |-> cmp.status,
        page |-> page, fetched |-> info,
        compared |-> has_stable /\ local_version # <<>>]

\* check_version that runs the comparison on an absent local version too
check_version_compare_absent(local_version, page) ==
    LET info == get_chrome_for_testing_info(page)
    IN IF info # EmptyDict /\ "stable" \in DOMAIN info
       THEN LET stable_version == info["stable"].version
                cmp == compare_versions(local_version, stable_version)
            IN [kind |-> "result", task |-> "check_version",
                local_version |-> local_version,
                stable_version |-> stable_version,
                chrome_info |-> info,
                needs_update |-> cmp.needs_update,
                status |-> cmp.status,
                page |-> page, fetched |-> info,
                compared |-> TRUE]
       ELSE [kind |-> "error", task |-> "check_version",
             msg |-> "catalog_unavailable",
             page |-> page, fetched |-> info, compared |-> FALSE]

\* --------------------------------------------- WorkerThread.check_version
\* l.59-111 as a function of the probed local version and the fetched page:
\* the terminal signal emitted.  Besides its payload the signal records the
\* page that was served, the catalog obtained from it at l.69 (fetched) and
\* whether the comparison of l.86-98 was reached (compared).
check_version(local_version, page) ==
    LET info == get_chrome_for_testing_info(page)
    IN IF info # EmptyDict /\ "stable" \in DOMAIN info
       THEN LET stable_version == info["stable"].version
                cmp == IF local_version # <<>>
                       THEN compare_versions(local_version, stable_version)
                       ELSE [status |-> "not_found", needs_update |-> TRUE]
            IN [kind |-> "result", task |-> "check_version",
                local_version |-> local_version,
                stable_version |-> stable_version,
                chrome_info |-> info,
                needs_update |-> cmp.needs_update,
                status |-> cmp.status,
                page |-> page, fetched |-> info,
                compared |-> local_version # <<>>]
       ELSE [kind |-> "error", task |-> "check_version",
             msg |-> "catalog_unavailable",
             page |-> page, fetched |-> info, compared |-> FALSE]

\* ------------------------------------------------------------------- state
VARIABLES
    check_btn, download_btn, copy_btn,  \* isEnabled() of the three buttons
    chrome_info,                        \* self.chrome_info (EmptyDict = None)
    path_input,                         \* text of the target path field
    status_label,                       \* status shown by on_check_complete
    config,                             \* config['Settings'] as last saved
    message,                            \* QMessageBox shown by the last handler
    task, pc,                           \* self.worker: task_type and position
    queue,                              \* terminal signals emitted, not yet handled
    archive,                            \* download: the archive held in memory
    response,                           \* download: the answer to the GET
    staging_dir, staged,                \* download_path and the binary under it
    target_dir, target, bak,            \* target directory, chromedriver.exe, .bak
    start_target, start_bak,            \* target and .bak when the running copy started
    copy_log,                           \* sources of the copy invocations so far
    last_installed,                     \* content of the last successful copy
    download_ok,                        \* a download worker has emitted success
    cmp_local, cmp_stable, cmp_result,  \* inputs and signal of one drawn check
    parse_page, parse_result            \* a drawn page and the catalog parsed from it

gui_vars == <<check_btn, download_btn, copy_btn, chrome_info, path_input,
              status_label, config, message>>
worker_vars == <<task, pc, queue, archive, response>>
fs_vars == <<staging_dir, staged, target_dir, target, bak>>
hist_vars == <<start_target, start_bak, copy_log, last_installed, download_ok>>
cmp_vars == <<cmp_local, cmp_stable, cmp_result, parse_page, parse_result>>
vars == <<gui_vars, worker_vars, fs_vars, hist_vars, cmp_vars>>

\* contents of chromedriver.exe inside the published archives
Binaries == {"A", "B"}
\* a file is absent, truncated by a failed write, or holds one binary
Files == {"absent", "partial"} \cup Binaries
\* what the download URL serves: an archive with the expected layout and
\* binary, or one without chromedriver-win64/chromedriver.exe
Archives == Binaries \cup {"other_layout"}

NoSignal == [kind |-> "none"]
Unparsed == [done |-> FALSE, info |-> EmptyDict]

\* the window after construction, no worker started, the disk as found
Constructed ==
    /\ check_btn = TRUE /\ download_btn = FALSE /\ copy_btn = FALSE
    /\ chrome_info = EmptyDict
    /\ path_input = "T"
    /\ status_label = "waiting"
    /\ config = [target_directory |-> "T", last_update |-> 0]
    /\ message = "none"
    /\ task = "none" /\ pc = "idle" /\ queue = <<>>
    /\ archive = "none" /\ response = "none"
    /\ staging_dir = FALSE /\ staged = "absent"
    /\ target_dir = FALSE /\ target = "absent" /\ bak = "absent"
    /\ start_target = "absent" /\ start_bak = "absent"
    /\ copy_log = <<>>
    /\ last_installed = "absent"
    /\ download_ok = FALSE

Init ==
    /\ Constructed
    /\ cmp_local = <<>> /\ cmp_stable = <<>> /\ cmp_result = NoSignal
    /\ parse_page = Page(FALSE, NoSection, NoSection) /\ parse_result = Unparsed

\* --------------------------------------------------- the worker's signals
ErrorSignal(t, msg) == [kind |-> "error", task |-> t, msg |-> msg]
ResultSignal(t) == [kind |-> "result", task |-> t, success |-> TRUE]
\* l.166-167, l.183: the copy's result names the installed file
CopyResult(target_path) ==
    [kind |-> "result", task |-> "copy", success |-> TRUE,
     target |-> <<target_path, "chromedriver.exe">>]
dirname(path) == path[1]

\* the worker emits its terminal signal and its run() returns
Emit(sig) ==
    /\ queue' = Append(queue, sig)
    /\ task' = "none"
    /\ pc' = "idle"

\* ------------------------------------ ChromeDriverCheckerGUI: check (l.372-413)
GUI_check_version ==
    /\ check_btn
    /\ check_btn' = FALSE /\ download_btn' = FALSE /\ copy_btn' = FALSE
    /\ task' = "check_version" /\ pc' = "run"
    /\ message' = "none"
    /\ UNCHANGED <<chrome_info, path_input, status_label, config,
                   queue, archive, response>>
    /\ UNCHANGED <<fs_vars, hist_vars, cmp_vars>>

\* WorkerThread.run for 'check_version': probe, fetch, compare, emit
Worker_check_version ==
    /\ task = "check_version"
    /\ \E local_version \in LocalProbes, page \in Pages :
          Emit(check_version(local_version, page))
    /\ UNCHANGED <<gui_vars, archive, response, fs_vars, hist_vars, cmp_vars>>

on_check_complete ==
    /\ queue # <<>>
    /\ Head(queue).kind = "result" /\ Head(queue).task = "check_version"
    /\ LET result == Head(queue)
       IN /\ chrome_info' = result.chrome_info
          /\ status_label' = result.status
          /\ download_btn' = (IF result.needs_update THEN TRUE ELSE download_btn)
    /\ check_btn' = TRUE
    /\ message' = "none"
    /\ queue' = Tail(queue)
    /\ UNCHANGED <<copy_btn, path_input, config,
                   task, pc, archive, response>>
    /\ UNCHANGED <<fs_vars, hist_vars, cmp_vars>>

\* ------------------------------------------------------- on_error (l.501-509)
on_error ==
    /\ queue # <<>>
    /\ Head(queue).kind = "error"
    /\ message' = "error"
    /\ check_btn' = TRUE /\ download_btn' = TRUE /\ copy_btn' = TRUE
    /\ queue' = Tail(queue)
    /\ UNCHANGED <<chrome_info, path_input, status_label, config,
                   task, pc, archive, response>>
    /\ UNCHANGED <<fs_vars, hist_vars, cmp_vars>>

\* --------------------------------- ChromeDriverCheckerGUI: download (l.415-456)
\* has_win64_driver that accepts a driver download for any platform
has_win64_driver_any_platform(info) ==
    "chromedriver" \in DOMAIN info["stable"].download_urls

\* l.421-422
has_win64_driver(info) ==
    /\ "chromedriver" \in DOMAIN info["stable"].download_urls
    /\ "win64" \in DOMAIN info["stable"].download_urls["chromedriver"]

\* the download click that leaves the check button enabled
GUI_download_chromedriver_keeps_check ==
    /\ download_btn
    /\ IF chrome_info = EmptyDict \/ "stable" \notin DOMAIN chrome_info
       THEN /\ message' = "no_download_info"
            /\ UNCHANGED <<download_btn, copy_btn, task, pc, staging_dir>>
       ELSE IF ~has_win64_driver(chrome_info)
       THEN /\ message' = "no_win64_link"
            /\ UNCHANGED <<download_btn, copy_btn, task, pc, staging_dir>>
       ELSE /\ download_btn' = FALSE /\ copy_btn' = FALSE
            /\ staging_dir' = TRUE
            /\ task' = "download" /\ pc' = "d_get"
            /\ message' = "none"
    /\ UNCHANGED <<check_btn, chrome_info, path_input, status_label, config,
                   queue, archive, response,
                   staged, target_dir, target, bak>>
    /\ UNCHANGED <<hist_vars, cmp_vars>>

\* l.415-442
GUI_download_chromedriver ==
    /\ download_btn
    /\ IF chrome_info = EmptyDict \/ "stable" \notin DOMAIN chrome_info
       THEN /\ message' = "no_download_info"
            /\ UNCHANGED <<check_btn, download_btn, copy_btn, task, pc, staging_dir>>
       ELSE IF ~has_win64_driver(chrome_info)
       THEN /\ message' = "no_win64_link"
            /\ UNCHANGED <<check_btn, download_btn, copy_btn, task, pc, staging_dir>>
       ELSE /\ download_btn' = FALSE /\ check_btn' = FALSE /\ copy_btn' = FALSE
            /\ staging_dir' = TRUE
            /\ task' = "download" /\ pc' = "d_get"
            /\ message' = "none"
    /\ UNCHANGED <<chrome_info, path_input, status_label, config,
                   queue, archive, response,
                   staged, target_dir, target, bak>>
    /\ UNCHANGED <<hist_vars, cmp_vars>>

\* a failed download whose exception is swallowed without a signal
DownloadFailed_silent ==
    /\ task' = "none" /\ pc' = "idle"
    /\ archive' = "none"
    /\ UNCHANGED queue

\* l.149-151: any exception of the try block
DownloadFailed ==
    /\ Emit(ErrorSignal("download", "download_failed"))
    /\ archive' = "none"

\* l.122: the GET is answered with a status line, or raises
Worker_download_get ==
    /\ task = "download" /\ pc = "d_get"
    /\ \/ /\ DownloadFailed
          /\ UNCHANGED response
       \/ /\ response' \in {"ok", "http_error"}
          /\ pc' = "d_status"
          /\ UNCHANGED <<task, queue, archive>>
    /\ UNCHANGED <<gui_vars, fs_vars, hist_vars, cmp_vars>>

\* the status step without raise_for_status
Worker_download_status_unchecked ==
    /\ task = "download" /\ pc = "d_status"
    /\ response' = "none"
    /\ archive' \in Archives \cup {"bad_zip"}
    /\ pc' = "d_extract"
    /\ UNCHANGED <<task, queue>>
    /\ UNCHANGED <<gui_vars, fs_vars, hist_vars, cmp_vars>>

\* l.123-139: raise_for_status, then the body is streamed into memory
Worker_download_status ==
    /\ task = "download" /\ pc = "d_status"
    /\ response' = "none"
    /\ IF response = "http_error"
       THEN /\ Emit(ErrorSignal("download", "http_error"))
            /\ archive' = "none"
       ELSE \/ DownloadFailed
            \/ /\ archive' \in Archives \cup {"bad_zip"}
               /\ pc' = "d_extract"
               /\ UNCHANGED <<task, queue>>
    /\ UNCHANGED <<gui_vars, fs_vars, hist_vars, cmp_vars>>

\* l.141-143: ZipFile(content) and extractall open the binary's file
Worker_download_extract ==
    /\ task = "download" /\ pc = "d_extract"
    /\ \/ /\ DownloadFailed
          /\ UNCHANGED <<staged, download_ok>>
       \/ /\ archive \in Binaries
          /\ staged' = "partial"
          /\ pc' = "d_write"
          /\ UNCHANGED <<task, queue, archive, response, download_ok>>
       \/ /\ archive = "other_layout"
          /\ Emit(ResultSignal("download"))
          /\ archive' = "none"
          /\ download_ok' = TRUE
          /\ UNCHANGED staged
    /\ UNCHANGED <<gui_vars, response,
                   staging_dir, target_dir, target, bak,
                   start_target, start_bak, copy_log, last_installed, cmp_vars>>

\* l.143-147: extractall writes the binary; success emits the result
Worker_download_write ==
    /\ task = "download" /\ pc = "d_write"
    /\ \/ /\ DownloadFailed
          /\ UNCHANGED <<staged, download_ok>>
       \/ /\ staged' = archive
          /\ Emit(ResultSignal("download"))
          /\ archive' = "none"
          /\ download_ok' = TRUE
    /\ UNCHANGED <<gui_vars, response,
                   staging_dir, target_dir, target, bak,
                   start_target, start_bak, copy_log, last_installed, cmp_vars>>

on_download_complete ==
    /\ queue # <<>>
    /\ Head(queue).kind = "result" /\ Head(queue).task = "download"
    /\ IF Head(queue).success
       THEN message' = "download_done" /\ copy_btn' = TRUE
       ELSE message' = "none" /\ UNCHANGED copy_btn
    /\ download_btn' = TRUE
    /\ check_btn' = TRUE
    /\ queue' = Tail(queue)
    /\ UNCHANGED <<chrome_info, path_input, status_label, config,
                   task, pc, archive, response>>
    /\ UNCHANGED <<fs_vars, hist_vars, cmp_vars>>

\* ------------------------------------------ the target path field (l.310-370)
browse_directory ==
    /\ path_input' = "T"
    /\ UNCHANGED <<check_btn, download_btn, copy_btn, chrome_info,
                   status_label, config, message>>
    /\ UNCHANGED <<worker_vars, fs_vars, hist_vars, cmp_vars>>

\* the user clears the editable field
clear_path_input ==
    /\ path_input # ""
    /\ path_input' = ""
    /\ UNCHANGED <<check_btn, download_btn, copy_btn, chrome_info,
                   status_label, config, message>>
    /\ UNCHANGED <<worker_vars, fs_vars, hist_vars, cmp_vars>>

\* ------------------------------------ ChromeDriverCheckerGUI: copy (l.458-499)
GUI_copy_chromedriver ==
    /\ copy_btn
    /\ config.last_update < MaxSaves
    /\ IF path_input = ""
       THEN /\ message' = "no_target_path"
            /\ UNCHANGED <<check_btn, download_btn, copy_btn, task, pc,
                           start_target, start_bak>>
       ELSE /\ copy_btn' = FALSE /\ check_btn' = FALSE /\ download_btn' = FALSE
            /\ task' = "copy" /\ pc' = "c_mkdir"
            /\ start_target' = target /\ start_bak' = bak
            /\ message' = "none"
    /\ UNCHANGED <<chrome_info, path_input, status_label, config,
                   queue, archive, response>>
    /\ UNCHANGED <<fs_vars, copy_log, last_installed, download_ok, cmp_vars>>

\* copy_log once an invocation failed or more than MaxCopyLog were made
Void == <<"void">>

\* the copy worker's run() ends: its terminal signal; the source is logged
\* while every invocation so far succeeded and the log has room
CopyDone(sig) ==
    /\ Emit(sig)
    /\ copy_log' = IF sig.kind = "result" /\ copy_log # Void
                      /\ Len(copy_log) < MaxCopyLog
                   THEN Append(copy_log, staged)
                   ELSE Void
    /\ last_installed' = IF sig.kind = "result" THEN staged ELSE last_installed
    /\ start_target' = "absent" /\ start_bak' = "absent"

\* l.185-187: any exception of the try block
CopyFailed(at) == CopyDone(ErrorSignal("copy", at))

\* the worker moves on to its next file operation
CopyStep(next) ==
    /\ pc' = next
    /\ UNCHANGED <<task, queue, copy_log, last_installed, start_target, start_bak>>

\* l.162-164: create the target directory when it is missing
Worker_copy_mkdir ==
    /\ task = "copy" /\ pc = "c_mkdir"
    /\ \/ /\ target_dir' = TRUE
          /\ CopyStep("c_source")
       \/ /\ ~target_dir
          /\ CopyFailed("makedirs_failed")
          /\ UNCHANGED target_dir
    /\ UNCHANGED <<gui_vars, archive, response, staging_dir, staged, target, bak,
                   download_ok, cmp_vars>>

\* Worker_copy_source that never backs the existing target up
Worker_copy_source_nobackup ==
    /\ task = "copy" /\ pc = "c_source"
    /\ IF staged = "absent"
       THEN CopyDone(ErrorSignal("copy", "source_missing"))
       ELSE CopyStep("c_copy")
    /\ UNCHANGED <<gui_vars, archive, response, fs_vars, download_ok, cmp_vars>>

\* l.166-175: the source must exist; an existing target is backed up first
Worker_copy_source ==
    /\ task = "copy" /\ pc = "c_source"
    /\ IF staged = "absent"
       THEN CopyDone(ErrorSignal("copy", "source_missing"))
       ELSE CopyStep(IF target # "absent" THEN "c_backup" ELSE "c_copy")
    /\ UNCHANGED <<gui_vars, archive, response, fs_vars, download_ok, cmp_vars>>

\* l.178: shutil.copy2(target, backup) opens (truncates) the .bak file
Worker_copy_backup_open ==
    /\ task = "copy" /\ pc = "c_backup"
    /\ \/ /\ bak' = "partial"
          /\ CopyStep("c_backup_write")
       \/ /\ CopyFailed("backup_failed")
          /\ UNCHANGED bak
    /\ UNCHANGED <<gui_vars, archive, response, staging_dir, staged, target_dir, target,
                   download_ok, cmp_vars>>

\* Worker_copy_backup_write that copies the new source to the .bak file
Worker_copy_backup_write_source ==
    /\ task = "copy" /\ pc = "c_backup_write"
    /\ \/ /\ bak' = staged
          /\ CopyStep("c_copy")
       \/ /\ bak' \in {"partial", staged}
          /\ CopyFailed("backup_failed")
    /\ UNCHANGED <<gui_vars, archive, response, staging_dir, staged, target_dir, target,
                   download_ok, cmp_vars>>

\* l.178: copy2 writes the data, then the metadata; either may fail
Worker_copy_backup_write ==
    /\ task = "copy" /\ pc = "c_backup_write"
    /\ \/ /\ bak' = target
          /\ CopyStep("c_copy")
       \/ /\ bak' \in {"partial", target}
          /\ CopyFailed("backup_failed")
    /\ UNCHANGED <<gui_vars, archive, response, staging_dir, staged, target_dir, target,
                   download_ok, cmp_vars>>

\* l.180: shutil.copy2(source, target) opens (truncates) the target file
Worker_copy_open ==
    /\ task = "copy" /\ pc = "c_copy"
    /\ \/ /\ target' = "partial"
          /\ CopyStep("c_copy_write")
       \/ /\ CopyFailed("copy_failed")
          /\ UNCHANGED target
    /\ UNCHANGED <<gui_vars, archive, response, staging_dir, staged, target_dir, bak,
                   download_ok, cmp_vars>>

\* l.180-183: copy2 writes the data, then the metadata; success emits the result
Worker_copy_write ==
    /\ task = "copy" /\ pc = "c_copy_write"
    /\ \/ /\ target' = staged
          /\ CopyDone(CopyResult("T"))
       \/ /\ target' \in {"partial", staged}
          /\ CopyFailed("copy_failed")
    /\ UNCHANGED <<gui_vars, archive, response, staging_dir, staged, target_dir, bak,
                   download_ok, cmp_vars>>

\* l.541-557: self.config['Settings'] after save_config(target_dir); the time
\* stamp is a clock that every save advances
save_config(dir) ==
    [target_directory |-> dir, last_update |-> config.last_update + 1]

\* on_copy_complete that saves the directory now in the path field
on_copy_complete_saves_input ==
    /\ queue # <<>>
    /\ Head(queue).kind = "result" /\ Head(queue).task = "copy"
    /\ config' = save_config(path_input) /\ message' = "install_done"
    /\ copy_btn' = TRUE /\ check_btn' = TRUE /\ download_btn' = TRUE
    /\ queue' = Tail(queue)
    /\ UNCHANGED <<chrome_info, path_input, status_label,
                   task, pc, archive, response>>
    /\ UNCHANGED <<fs_vars, hist_vars, cmp_vars>>

on_copy_complete ==
    /\ queue # <<>>
    /\ Head(queue).kind = "result" /\ Head(queue).task = "copy"
    /\ IF Head(queue).success
       THEN /\ config' = save_config(dirname(Head(queue).target))
            /\ message' = "install_done"
       ELSE message' = "none" /\ UNCHANGED config
    /\ copy_btn' = TRUE /\ check_btn' = TRUE /\ download_btn' = TRUE
    /\ queue' = Tail(queue)
    /\ UNCHANGED <<chrome_info, path_input, status_label,
                   task, pc, archive, response>>
    /\ UNCHANGED <<fs_vars, hist_vars, cmp_vars>>

\* ------------------------------------------------------------ specification
Next ==
    \/ GUI_check_version
    \/ Worker_check_version
    \/ on_check_complete
    \/ GUI_download_chromedriver
    \/ Worker_download_get
    \/ Worker_download_status
    \/ Worker_download_extract
    \/ Worker_download_write
    \/ on_download_complete
    \/ GUI_copy_chromedriver
    \/ Worker_copy_mkdir
    \/ Worker_copy_source
    \/ Worker_copy_backup_open
    \/ Worker_copy_backup_write
    \/ Worker_copy_open
    \/ Worker_copy_write
    \/ on_copy_complete
    \/ on_error
    \/ browse_directory
    \/ clear_path_input

Spec == Init /\ [][Next]_vars

\* the steps of WorkerThread.run: the started thread is scheduled and each
\* blocking call (subprocess, HTTP request, file copy) returns or raises
WorkerStep ==
    \/ Worker_check_version
    \/ Worker_download_get
    \/ Worker_download_status
    \/ Worker_download_extract
    \/ Worker_download_write
    \/ Worker_copy_mkdir
    \/ Worker_copy_source
    \/ Worker_copy_backup_open
    \/ Worker_copy_backup_write
    \/ Worker_copy_open
    \/ Worker_copy_write

\* the slots connected to result_signal and error_signal: the GUI event loop
\* delivers every queued signal
HandlerStep ==
    \/ on_check_complete
    \/ on_download_complete
    \/ on_copy_complete
    \/ on_error

SpecLive == Init /\ [][Next]_vars /\ WF_vars(WorkerStep) /\ WF_vars(HandlerStep)

\* -------------------------- the comparison alone, over all bounded inputs
InitCompare ==
    /\ cmp_local \in StrsUpTo(MaxVerLen) \ {<<>>}
    /\ cmp_stable \in StrsUpTo(MaxVerLen)
    /\ cmp_result = NoSignal
    /\ parse_page = Page(FALSE, NoSection, NoSection) /\ parse_result = Unparsed
    /\ Constructed

\* a page whose stable section publishes version v with a driver download
StablePage(v) == Page(TRUE, Section("code", v, <<ChromeRow, DriverRow>>), NoSection)

\* WorkerThread.check_version run on the drawn pair: cmp_local is the probed
\* local version, cmp_stable the version the stable section publishes
Compare ==
    /\ cmp_result = NoSignal
    /\ cmp_result' = check_version(cmp_local, StablePage(cmp_stable))
    /\ UNCHANGED <<cmp_local, cmp_stable, parse_page, parse_result>>
    /\ UNCHANGED <<gui_vars, worker_vars, fs_vars, hist_vars>>

NextCompare == Compare

SpecCompare == InitCompare /\ [][NextCompare]_vars

\* ------------------------------------------- the catalog parser on its own
\* rows a download table may hold: well-formed ones, and rows lacking the
\* status-ok class, the fourth cell, or the code text of one column
RowShapes ==
    { ChromeRow, DriverRow, MacRow,
      Row(TRUE, <<"chromedriver", "win64", "url_driver_2", "ok">>),
      Row(TRUE, <<"chromedriver", "win64", "", "ok">>),
      Row(TRUE, <<"chromedriver", "", "url_driver", "ok">>),
      Row(TRUE, <<"", "win64", "url_driver", "ok">>),
      Row(TRUE, <<"chromedriver", "win64", "url_driver">>),
      Row(FALSE, <<"chromedriver", "win64", "url_old", "no">>) }

RowSeqs == UNION {[1..n -> RowShapes] : n \in 0..MaxRows}

\* a stable section: absent, without <p>, without <code>, or with a <code>
\* (possibly empty) and a table
ParseStableSections ==
    { NoSection, Section("none", <<>>, <<>>), Section("nocode", <<>>, <<>>) }
    \cup { Section("code", v, rows) : v \in {<<>>, <<"1", "0">>}, rows \in RowSeqs }

ParseBetaSections ==
    { NoSection, Section("none", <<>>, <<>>), Section("nocode", <<>>, <<>>),
      Section("code", <<>>, <<>>), Section("code", <<"1", "9">>, <<MacRow>>) }

ParsePages ==
    { Page(FALSE, NoSection, NoSection) }
    \cup { Page(TRUE, st, be) : st \in ParseStableSections, be \in ParseBetaSections }

InitParse ==
    /\ parse_page \in ParsePages
    /\ parse_result = Unparsed
    /\ cmp_local = <<>> /\ cmp_stable = <<>> /\ cmp_result = NoSignal
    /\ Constructed

\* WorkerThread.get_chrome_for_testing_info run on the drawn page
Parse ==
    /\ ~parse_result.done
    /\ parse_result' = [done |-> TRUE, info |-> get_chrome_for_testing_info(parse_page)]
    /\ UNCHANGED <<cmp_local, cmp_stable, cmp_result, parse_page>>
    /\ UNCHANGED <<gui_vars, worker_vars, fs_vars, hist_vars>>

NextParse == Parse

SpecParse == InitParse /\ [][NextParse]_vars

\* ================================================================ properties
\* s is a dotted-numeric version: digits and single dots, no dot at either end
DottedNumeric(s) ==
    /\ s # <<>>
    /\ \A i \in 1..Len(s) : s[i] \in Digits \cup {"."}
    /\ s[1] # "." /\ s[Len(s)] # "."
    /\ \A i \in 1..(Len(s) - 1) : ~(s[i] = "." /\ s[i + 1] = ".")

\* C7: every check of a present local version against the stable version
\* delivers a result whose needs_update is true exactly when the status is
\* 'outdated'; when either string is not a dotted-numeric version the status
\* is 'parse_error' and needs_update is false.
C7_NeedsUpdateIffOutdated ==
    cmp_result # NoSignal =>
        /\ cmp_result.kind = "result"
        /\ cmp_result.status \in {"latest", "newer", "outdated", "parse_error"}
        /\ cmp_result.needs_update <=> (cmp_result.status = "outdated")
        /\ (~DottedNumeric(cmp_local) \/ ~DottedNumeric(cmp_stable))
              => (cmp_result.status = "parse_error" /\ ~cmp_result.needs_update)
        /\ (DottedNumeric(cmp_local) /\ DottedNumeric(cmp_stable))
              => cmp_result.status # "parse_error"

C7_Witness ==
    /\ cmp_result # NoSignal
    /\ DottedNumeric(cmp_local) /\ ~DottedNumeric(cmp_stable)
    /\ cmp_result.status = "parse_error"

Inverse(status) ==
    CASE status = "latest" -> "latest"
      [] status = "newer" -> "outdated"
      [] status = "outdated" -> "newer"
      [] OTHER -> status

\* C8: for dotted-numeric a and b the status of comparing local a with stable
\* b is the inverse of the status of comparing local b with stable a, and
\* comparing v with v is 'latest' with needs_update false.
C8_ComparisonInverse ==
    (cmp_result # NoSignal /\ DottedNumeric(cmp_local) /\ DottedNumeric(cmp_stable)) =>
        /\ cmp_result.status \in {"latest", "newer", "outdated"}
        /\ compare_versions(cmp_stable, cmp_local).status = Inverse(cmp_result.status)
        /\ cmp_local = cmp_stable
              => (cmp_result.status = "latest" /\ ~cmp_result.needs_update)

C8_Witness ==
    /\ cmp_result # NoSignal
    /\ DottedNumeric(cmp_local) /\ DottedNumeric(cmp_stable)
    /\ cmp_result.status = "newer"
    /\ compare_versions(cmp_stable, cmp_local).status = "outdated"

\* the reference comparator: the components between the dots as integers,
\* the shorter list padded with zeros, compared from the left
RefDots(s) == {i \in 1..Len(s) : s[i] = "."}
RefStart(s, k) ==
    IF k = 1 THEN 1
    ELSE 1 + CHOOSE i \in RefDots(s) : Cardinality({j \in RefDots(s) : j < i}) = k - 2
RefEnd(s, k) ==
    IF k = Cardinality(RefDots(s)) + 1 THEN Len(s)
    ELSE (CHOOSE i \in RefDots(s) : Cardinality({j \in RefDots(s) : j < i}) = k - 1) - 1
RECURSIVE RefValue(_, _)
RefValue(c, acc) ==
    IF c = <<>> THEN acc ELSE RefValue(Tail(c), 10 * acc + DigitVal(Head(c)))
RefInts(s) ==
    [k \in 1..(Cardinality(RefDots(s)) + 1) |->
        RefValue(SubSeq(s, RefStart(s, k), RefEnd(s, k)), 0)]
RefPad(r, n) == [i \in 1..n |-> IF i <= Len(r) THEN r[i] ELSE 0]
RefStatus(a, b) ==
    LET n == IF Len(RefInts(a)) > Len(RefInts(b)) THEN Len(RefInts(a)) ELSE Len(RefInts(b))
        pa == RefPad(RefInts(a), n)
        pb == RefPad(RefInts(b), n)
        diff == {i \in 1..n : pa[i] # pb[i]}
    IN IF diff = {} THEN "latest"
       ELSE LET first == CHOOSE i \in diff : \A j \in diff : i <= j
            IN IF pa[first] > pb[first] THEN "newer" ELSE "outdated"

\* C9: the status of two dotted-numeric versions is that of the reference
\* comparator (numeric per component, missing trailing components are zero).
C9_NumericComponentOrder ==
    (cmp_result # NoSignal /\ DottedNumeric(cmp_local) /\ DottedNumeric(cmp_stable)) =>
        cmp_result.status = RefStatus(cmp_local, cmp_stable)

\* 9 against 10 is outdated although "9" sorts after "10" as a string
C9_Witness ==
    /\ cmp_local = <<"9">> /\ cmp_stable = <<"1", "0">>
    /\ cmp_result # NoSignal
    /\ cmp_result.status = "outdated"

\* C1: once no copy is running, the content of the last binary that was
\* installed successfully is intact at chromedriver.exe or at
\* chromedriver.exe.bak, whatever file operations failed in between.
C1_InstalledBinaryNeverLost ==
    (task # "copy" /\ last_installed \in Binaries) =>
        (target = last_installed \/ bak = last_installed)

\* C2: starting from an empty destination, after one successful copy the
\* target holds that binary and there is no .bak; after each further
\* successful copy the target holds the newest binary and .bak the one
\* installed just before it.
C2_BackupRotation ==
    (task # "copy" /\ copy_log # Void /\ copy_log # <<>>) =>
        /\ target = copy_log[Len(copy_log)]
        /\ bak = (IF Len(copy_log) = 1 THEN "absent"
                  ELSE copy_log[Len(copy_log) - 1])

C2_Witness ==
    /\ task = "none"
    /\ copy_log = <<"A", "B">>
    /\ target = "B" /\ bak = "A"

\* C3 as stated: when the write of the new binary is about to begin, the
\* file that was at the destination has been moved away to .bak.
C3_MovedBeforeWrite ==
    (task = "copy" /\ pc = "c_copy" /\ start_target \in Binaries) =>
        (target = "absent" /\ bak = start_target)

\* C3 amended: the file that was at the destination is copied to .bak before
\* the write of the new binary begins; until that write begins the
\* destination still holds it, and once it has begun .bak holds it.  When no
\* file was at the destination, .bak is left as it was.
C3_BackedUpBeforeWrite ==
    task = "copy" =>
        /\ (pc \in {"c_copy", "c_copy_write"} /\ start_target # "absent")
              => bak = start_target
        /\ pc \in {"c_mkdir", "c_source", "c_backup", "c_backup_write", "c_copy"}
              => target = start_target
        /\ start_target = "absent" => bak = start_bak

C3_Witness ==
    /\ task = "copy" /\ pc = "c_copy_write"
    /\ start_target = "A" /\ staged = "B"
    /\ target = "partial" /\ bak = "A"

\* C4: when the write of the new binary to the destination fails, the copy
\* returns its error with no truncated file at the destination and with the
\* backup of the old binary intact.
C4_NoPartialTargetAfterFailure ==
    [][(/\ task = "copy" /\ pc = "c_copy_write" /\ staged \in Binaries
        /\ task' = "none"
        /\ queue'[Len(queue')].kind = "error")
          => (/\ target' # "partial"
              /\ start_target # "absent" => bak' = start_target)]_vars

\* C5: while the status shown by the last completed check is 'latest' or
\* 'newer', no download worker and no copy worker is running.
C5_NoInstallWhenUpToDate ==
    status_label \in {"latest", "newer"} => task \notin {"download", "copy"}

\* C6: a copy worker runs, or can be started, only after a download worker
\* has succeeded in this session, and a download worker only after a check
\* has stored a catalog.
C6_PipelineOrder ==
    /\ (task = "copy" \/ (copy_btn /\ path_input # "")) => download_ok
    /\ task = "download" => chrome_info # EmptyDict

\* the check worker's input gave no usable catalog
CatalogFailure(sig) ==
    \/ ~sig.page.fetched
    \/ \E ch \in ChannelSet :
          sig.page.sections[ch].present /\ sig.page.sections[ch].p = "none"
    \/ "stable" \notin DOMAIN sig.fetched

\* C10: a check whose catalog could not be obtained or parsed, or has no
\* stable channel, emits exactly an error, reaches no comparison, and neither
\* it nor the handling of its error changes the stored chrome_info.
C10_CatalogUnavailable ==
    [][/\ (task = "check_version" /\ task' = "none"
           /\ CatalogFailure(queue'[Len(queue')]))
          => (/\ queue' = Append(queue, queue'[Len(queue')])
              /\ queue'[Len(queue')].kind = "error"
              /\ ~queue'[Len(queue')].compared
              /\ chrome_info' = chrome_info)
       /\ (/\ queue # <<>> /\ Head(queue).task = "check_version"
           /\ CatalogFailure(Head(queue))
           /\ queue' = Tail(queue))
          => chrome_info' = chrome_info]_vars

\* a failed check is pending while a catalog from an earlier check is stored
C10_Witness ==
    /\ queue # <<>>
    /\ Head(queue).task = "check_version" /\ Head(queue).kind = "error"
    /\ CatalogFailure(Head(queue))
    /\ chrome_info # EmptyDict

\* the stored catalog offers no chromedriver download for win64
NoDriverUrl ==
    \/ "stable" \notin DOMAIN chrome_info
    \/ \A b \in DOMAIN chrome_info["stable"].download_urls :
          b = "chromedriver" =>
              "win64" \notin DOMAIN chrome_info["stable"].download_urls[b]

\* C11: a download request made while the stored catalog has no stable
\* channel or no chromedriver URL for win64 only shows a warning: no worker
\* is started, the staging directory is not created, and the buttons and
\* the stored catalog stay as they are.
C11_NoDownloadForPlatform ==
    [][(GUI_download_chromedriver /\ NoDriverUrl)
          => (/\ message' \in {"no_download_info", "no_win64_link"}
              /\ UNCHANGED <<task, pc, queue, staging_dir, staged,
                             check_btn, download_btn, copy_btn, chrome_info>>)]_vars

\* an update is needed, the catalog has no win64 driver, the request was refused
C11_Witness ==
    /\ message = "no_win64_link"
    /\ status_label \in {"outdated", "not_found"}
    /\ "stable" \in DOMAIN chrome_info /\ NoDriverUrl
    /\ download_btn /\ task = "none" /\ ~staging_dir

\* C12: a check with no local version and a catalog that has a stable channel
\* delivers needs_update = true with status 'not_found' and reaches no
\* comparison, whether or not the stable version parses; and a catalog with a
\* stable channel always yields a result.
C12_AbsentLocalNeedsUpdate ==
    \A i \in 1..Len(queue) :
        (queue[i].task = "check_version" /\ "stable" \in DOMAIN queue[i].fetched) =>
            /\ queue[i].kind = "result"
            /\ queue[i].local_version = <<>> =>
                  (/\ queue[i].needs_update
                   /\ queue[i].status = "not_found"
                   /\ ~queue[i].compared)

\* no local version against a stable version that does not parse
C12_Witness ==
    /\ queue # <<>>
    /\ Head(queue).task = "check_version" /\ Head(queue).kind = "result"
    /\ Head(queue).local_version = <<>>
    /\ ~DottedNumeric(Head(queue).stable_version)
    /\ Head(queue).needs_update

\* C13: every channel of a parsed catalog has a non-empty version string,
\* also when the section's code element is empty.
C13_NonEmptyVersion ==
    parse_result.done =>
        \A ch \in DOMAIN parse_result.info : parse_result.info[ch].version # <<>>

\* the section of channel ch yields a version: a lead paragraph with a code element
WellFormed(ch) ==
    parse_page.sections[ch].present /\ parse_page.sections[ch].p = "code"

\* C14: when the version cannot be extracted from an existing section, only
\* that channel is left out: every channel with a well-formed section is in
\* the catalog with its version and downloads.
C14_OnlyFailedChannelOmitted ==
    (parse_result.done /\ parse_page.fetched) =>
        \A ch \in ChannelSet :
            IF WellFormed(ch)
            THEN /\ ch \in DOMAIN parse_result.info
                 /\ parse_result.info[ch].version = parse_page.sections[ch].version
                 /\ parse_result.info[ch].download_urls =
                        add_rows(EmptyDict, parse_page.sections[ch].rows)
            ELSE ch \notin DOMAIN parse_result.info

\* the row is status-ok, has at least four cells and code text in the kind,
\* platform and URL columns
Qualifies(row) ==
    /\ row.ok
    /\ Len(row.cells) >= 4
    /\ \A i \in 1..3 : row.cells[i] # ""

\* indices of the qualifying rows naming kind b and platform q
RowsFor(rows, b, q) ==
    {i \in 1..Len(rows) : Qualifies(rows[i]) /\ rows[i].cells[1] = b /\ rows[i].cells[2] = q}

Latest(S) == CHOOSE i \in S : \A j \in S : j <= i

\* C18: the downloads of a channel hold exactly the (kind, platform) pairs of
\* the qualifying rows of its table, each with the URL of the (last) qualifying
\* row naming it; the other rows leave no trace and abort nothing.
C18_QualifyingRowsContribute ==
    parse_result.done =>
        \A ch \in DOMAIN parse_result.info :
            LET rows == parse_page.sections[ch].rows
                urls == parse_result.info[ch].download_urls
            IN /\ \A b \in DOMAIN urls : DOMAIN urls[b] # {}
               /\ UNION {{<<b, q>> : q \in DOMAIN urls[b]} : b \in DOMAIN urls}
                  = {<<rows[i].cells[1], rows[i].cells[2]>> :
                        i \in {j \in 1..Len(rows) : Qualifies(rows[j])}}
               /\ \A b \in DOMAIN urls : \A q \in DOMAIN urls[b] :
                     /\ RowsFor(rows, b, q) # {}
                     /\ urls[b][q] = rows[Latest(RowsFor(rows, b, q))].cells[3]

\* a table with a skipped row and a kept row
C18_Witness ==
    /\ parse_result.done
    /\ "stable" \in DOMAIN parse_result.info
    /\ \E i \in 1..Len(parse_page.sections["stable"].rows) :
          ~Qualifies(parse_page.sections["stable"].rows[i])
    /\ \E i \in 1..Len(parse_page.sections["stable"].rows) :
          Qualifies(parse_page.sections["stable"].rows[i])
    /\ "chromedriver" \in DOMAIN parse_result.info["stable"].download_urls

\* C15: a download whose GET is answered with a non-success status ends with
\* the error signal, never a result; it reaches no extraction and leaves the
\* staging directory's files as they were.
C15_HttpErrorFailsCleanly ==
    [][(task = "download" /\ response = "http_error")
          => (/\ staged' = staged
              /\ download_ok' = download_ok
              /\ pc' \in {"d_status", "idle"}
              /\ task' # "download" =>
                    (/\ queue' = Append(queue, ErrorSignal("download", "http_error"))
                     /\ task' = "none"))]_vars

\* the error of a download answered with a non-success status is queued and
\* the staging directory holds no file
C15_Witness ==
    /\ queue # <<>>
    /\ Head(queue) = ErrorSignal("download", "http_error")
    /\ staging_dir /\ staged = "absent" /\ ~download_ok
    /\ task = "none"

\* C16: extraction is all-or-nothing: no copy runs on a staging tree that a
\* failed extraction left partially written.
C16_NoCopyFromPartialTree ==
    task = "copy" => staged # "partial"

\* C17: a copy whose source binary is missing ends with an error, never a
\* result, and leaves the destination as it was: no backup, target and .bak
\* unchanged, the destination directory not created.
C17_SourceMissingLeavesDestination ==
    [][(task = "copy" /\ staged = "absent")
          => (/\ target' = target /\ bak' = bak
              /\ target_dir' = target_dir
              /\ task' # "copy" =>
                    (/\ queue' # <<>>
                     /\ queue'[Len(queue')].kind = "error"
                     /\ queue'[Len(queue')].task = "copy"))]_vars

\* the head of the queue is the result of a successful copy
CopySucceeded ==
    /\ queue # <<>>
    /\ Head(queue).kind = "result" /\ Head(queue).task = "copy"
    /\ Head(queue).success

\* C19: the settings are saved exactly once for every successful copy, with
\* the directory of the installed binary, and at no other time: the settings
\* change only in the step that handles a copy's result, that step advances
\* last_update by one save, and a copy result is only ever emitted by the
\* copy worker's completed write.
C19_SavedOncePerInstall ==
    [][/\ (CopySucceeded /\ queue' = Tail(queue))
            => /\ config'.last_update = config.last_update + 1
               /\ config'.target_directory = Head(queue).target[1]
       /\ ~(CopySucceeded /\ queue' = Tail(queue)) => config' = config
       /\ (Len(queue') > Len(queue) /\ queue'[Len(queue')].task = "copy"
              /\ queue'[Len(queue')].kind = "result")
            => /\ task = "copy" /\ target' = staged
               /\ queue'[Len(queue')].target = <<"T", "chromedriver.exe">>
               /\ target_dir]_vars

\* two installs were made and saved, after a failed copy in between or not
C19_Witness ==
    /\ config.last_update = MaxSaves
    /\ config.target_directory = "T"
    /\ path_input = ""
    /\ target \in Binaries
    /\ message = "install_done"

AllDisabled == ~check_btn /\ ~download_btn /\ ~copy_btn

\* C20: at most one worker is in progress: while a task runs or its signal
\* waits to be handled all three buttons are disabled; a task starts only
\* when none runs and none is unhandled, and its start disables the three
\* buttons; a button is enabled again only by the handler that consumes the
\* task's result or error.
C20_SingleWorker ==
    [][/\ (task # "none" \/ queue # <<>>) => AllDisabled
       /\ Len(queue) <= 1
       /\ (task' # task /\ task' # "none")
            => /\ task = "none" /\ queue = <<>>
               /\ ~check_btn' /\ ~download_btn' /\ ~copy_btn'
       /\ ((~check_btn /\ check_btn') \/ (~download_btn /\ download_btn')
              \/ (~copy_btn /\ copy_btn'))
            => /\ task = "none" /\ task' = "none"
               /\ queue # <<>> /\ queue' = Tail(queue)]_vars

\* a download in progress, started after an install had re-enabled the buttons
C20_Witness ==
    /\ task = "download" /\ pc = "d_write"
    /\ last_installed \in Binaries
    /\ AllDisabled

\* a terminal signal of task t: one result or one error
Terminal(sig, t) == sig.kind \in {"result", "error"} /\ sig.task = t

\* C21: every started worker finishes by emitting exactly one terminal signal:
\* the step that ends the task queues one result or error signal of that
\* task, no other step queues a signal, and every started task does end with
\* its signal handled and the check button enabled again.
C21_ExactlyOneTerminalSignal ==
    /\ [][/\ (task # "none" /\ task' # task)
               => /\ task' = "none"
                  /\ Len(queue') = Len(queue) + 1
                  /\ \A i \in 1..Len(queue) : queue'[i] = queue[i]
                  /\ Terminal(queue'[Len(queue')], task)
          /\ ~(task # "none" /\ task' # task) => Len(queue') <= Len(queue)]_vars
    /\ (task # "none") ~> (task = "none" /\ queue = <<>> /\ check_btn)

\* a copy that ended on its exception path: its one error signal is queued
C21_Witness ==
    /\ task = "none"
    /\ Len(queue) = 1
    /\ Terminal(queue[1], "copy") /\ queue[1].kind = "error"
    /\ target = "partial"
    /\ ~check_btn

====
